---- MODULE Spec2Model ----
(***************************************************************************)
(* A model of the marker collection of hyperspy/drawing/markers.py and of  *)
(* its geometry adapters (hyperspy/drawing/_markers): the argument store,  *)
(* the lazy chunk cache, the draw-time queries, the life cycle and the     *)
(* record round trip.                                                      *)
(*                                                                         *)
(* Navigation is one-dimensional: a navigation index is a number in        *)
(* 0 .. NavSize-1.  An array is a record [t |-> "arr", w, rows]: rows is   *)
(* the sequence of its entries along axis 0 and w the length of one entry  *)
(* (1 for a one-dimensional array, 2 for an (n, 2) array).  An object      *)
(* (ragged) array is [t |-> "obj", lazy, chunk, cells]: one cell per       *)
(* navigation position, a cell being an array or a scalar; lazy says that  *)
(* it is a dask array, chunk is the length of its chunks.                  *)
(***************************************************************************)
EXTENDS Integers, Sequences, FiniteSets, TLC

\* Number of navigation positions of the host signal.
NavSize == 3
\* Largest number of marker instances an argument holds at one position.
MaxLen == 3

NoneV == [t |-> "none"]
Scalar(x) == [t |-> "scalar", x |-> x]
Tup(x) == [t |-> "tup", x |-> x]
Arr(w, rows) == [t |-> "arr", w |-> w, rows |-> rows]
Obj(cells) == [t |-> "obj", lazy |-> FALSE, chunk |-> 0, cells |-> cells]
Dask(chunk, cells) == [t |-> "obj", lazy |-> TRUE, chunk |-> chunk, cells |-> cells]

Pop(f, k) == [x \in DOMAIN f \ {k} |-> f[x]]
Put(f, k, v) == [x \in DOMAIN f \cup {k} |-> IF x = k THEN v ELSE f[x]]
Min(a, b) == IF a < b THEN a ELSE b

\* The order in which a keyword dictionary is iterated (insertion order).
KeySeq == <<"offsets", "sizes", "widths", "heights", "texts", "segments", "verts">>
KeysIn(f) == SelectSeq(KeySeq, LAMBDA k : k \in DOMAIN f)

is_iterating(arg) == arg.t = "obj"

Mutant_is_iterating_prop(m) ==
    /\ m.plot_on_signal
    /\ \E k \in DOMAIN m.kwargs : is_iterating(m.kwargs[k])

\* Markers._is_iterating
IsIteratingProp(m) ==
    IF m.transform = "relative" \/ m.offsets_transform = "relative"
    THEN FALSE
    ELSE IF m.plot_on_signal
         THEN \E k \in DOMAIN m.kwargs : is_iterating(m.kwargs[k])
         ELSE FALSE

(***************************************************************************)
(* Construction                                                            *)
(***************************************************************************)
TransformTags ==
    {"data", "axes", "xaxis", "yaxis", "display", "relative",
     "xaxis_scale", "yaxis_scale"}

Failed == [ok |-> FALSE]
Made(m) == [ok |-> TRUE, m |-> m]

\* The loop of Markers.__init__ over the keyword arguments: a list becomes an
\* array (verts excepted), a scalar sizes or color becomes a one-element tuple.
NormalizeKwarg(key, value) ==
    LET v1 == IF value.t = "list" /\ key # "verts"
              THEN Arr(value.w, value.rows) ELSE value
    IN  IF key \in {"sizes", "color"} /\ value.t = "scalar"
        THEN Tup(value.x) ELSE v1

\* Markers.__init__.  The conflict check reads `offsets_transform is "data"`:
\* it compares the identity of two string objects, which holds for a literal
\* of the caller (same_object) and does not hold for an equal string made at
\* run time.
MarkersInit(marker_type, collection_class, offsets_transform, transform, shift, kwargs, same_object) ==
    IF offsets_transform = "data" /\ same_object /\ transform \in {"axes", "data"}
    THEN Failed
    ELSE IF offsets_transform \notin TransformTags \/ transform \notin TransformTags
    THEN Failed
    ELSE Made([marker_type |-> marker_type,
               name |-> marker_type,
               collection_class |-> collection_class,
               kwargs |-> [k \in DOMAIN kwargs |-> NormalizeKwarg(k, kwargs[k])],
               dask_kwargs |-> {k \in DOMAIN kwargs : kwargs[k].t = "obj" /\ kwargs[k].lazy},
               offsets_transform |-> offsets_transform,
               same_object |-> same_object,
               transform |-> transform,
               shift |-> shift,
               plot_on_signal |-> TRUE,
               attr_plot_on_signal |-> NoneV,
               axes_manager |-> FALSE,
               ax |-> FALSE,
               signal |-> 0,
               collection |-> 0,
               coll_offsets_transform |-> NoneV,
               coll_transform |-> NoneV,
               temp_signal |-> FALSE,
               closing |-> FALSE,
               cache_slice |-> << >>,
               cache |-> << >>])

\* A constructor call: args.transform and args.offsets_transform are a tag or
\* "absent" (the keyword is not passed); args.kwargs are the other keywords.
Default(tag, dflt) == IF tag = "absent" THEN dflt ELSE tag
\* The default of offsets_transform is the literal of the signature.
SameObject(args) == args.offsets_transform = "absent" \/ args.same_object

\* _EqualWidthsHeightsMarkers.__init__ (Points, Circles, Squares)
EqualWidthsHeightsInit(kind, cls, args) ==
    IF args.transform # "absent" /\ args.transform # "display"
    THEN Failed
    ELSE IF "offsets" \in DOMAIN args.kwargs
    THEN MarkersInit(kind, cls, Default(args.offsets_transform, "data"),
                     "display", args.shift,
                     IF "sizes" \in DOMAIN args.kwargs THEN args.kwargs
                     ELSE Put(args.kwargs, "sizes", Scalar(2)),
                     SameObject(args))
    ELSE Failed

\* _WidthsHeightsMarkers.__init__ (Ellipses, Rectangles)
WidthsHeightsInit(kind, cls, args) ==
    IF args.transform # "absent" /\ args.transform # "display"
    THEN Failed
    ELSE IF {"offsets", "widths", "heights"} \subseteq DOMAIN args.kwargs
    THEN MarkersInit(kind, cls, Default(args.offsets_transform, "data"),
                     "display", args.shift, args.kwargs, SameObject(args))
    ELSE Failed

\* HorizontalLines.__init__ / VerticalLines.__init__
LinesInit(kind, fixed, args) ==
    IF args.transform # "absent" /\ args.transform # fixed
    THEN Failed
    ELSE IF args.offsets_transform # "absent" /\ args.offsets_transform # "display"
    THEN Failed
    ELSE IF "offsets" \in DOMAIN args.kwargs
    THEN MarkersInit(kind, "LineCollection", "display", fixed, args.shift, args.kwargs, TRUE)
    ELSE Failed

\* Texts.__init__.  The check reads `kwargs["transform"] is not "display"`: an
\* identity comparison, which a "display" made at run time does not pass.
TextsInit(args) ==
    IF args.transform # "absent" /\ (args.transform # "display" \/ ~args.same_transform)
    THEN Failed
    ELSE IF "offsets" \in DOMAIN args.kwargs
    THEN MarkersInit("Texts", "TextCollection", Default(args.offsets_transform, "data"),
                     "display", args.shift, args.kwargs, SameObject(args))
    ELSE Failed

AdapterKinds ==
    {"Points", "Circles", "Squares", "Ellipses", "Rectangles",
     "HorizontalLines", "VerticalLines", "Texts"}
EqualKinds == {"Points", "Circles", "Squares"}

\* The constructor of each marker class.
Construct(kind, args) ==
    CASE kind = "Points" -> EqualWidthsHeightsInit(kind, "EllipseCollection", args)
      [] kind = "Circles" -> EqualWidthsHeightsInit(kind, "EllipseCollection", args)
      [] kind = "Squares" -> EqualWidthsHeightsInit(kind, "RectangleCollection", args)
      [] kind = "Ellipses" -> WidthsHeightsInit(kind, "EllipseCollection", args)
      [] kind = "Rectangles" -> WidthsHeightsInit(kind, "RectangleCollection", args)
      [] kind = "HorizontalLines" -> LinesInit(kind, "yaxis", args)
      [] kind = "VerticalLines" -> LinesInit(kind, "xaxis", args)
      [] kind = "Texts" -> TextsInit(args)
      [] OTHER -> MarkersInit("Markers", args.collection_class,
                              Default(args.offsets_transform, "data"),
                              Default(args.transform, "display"),
                              args.shift, args.kwargs, SameObject(args))

(***************************************************************************)
(* The host: the displayed trace of a one-dimensional signal               *)
(***************************************************************************)
\* Number of samples of the displayed trace.
SigLen == 3
\* The trace displayed at navigation index i: i*SigLen + 1 .. (i+1)*SigLen.
Trace(i) == [x \in 0 .. SigLen - 1 |-> i * SigLen + x + 1]
\* The hosts: 1 is a 1-D signal with the default signal axis, 2 a 1-D signal
\* with a calibrated signal axis, 3 a 2-D signal, which displays no 1-D trace.
Hosts == {1, 2, 3}
HostAxis(host) == IF host = 2 THEN [offset |-> -1, scale |-> 2] ELSE [offset |-> 0, scale |-> 1]
Host1D(host) == host \in {1, 2}

(***************************************************************************)
(* The lazy chunk cache                                                    *)
(***************************************************************************)
KeyIdx(k) == CHOOSE i \in 1 .. Len(KeySeq) : KeySeq[i] = k

\* The slice of the chunk that covers a navigation index.
ChunkSlice(indices, value) ==
    IF indices >= Len(value.cells) \/ value.chunk < 1
    THEN NoneV
    ELSE LET start == (indices \div value.chunk) * value.chunk
         IN  [t |-> "slice", start |-> start,
              stop |-> Min(start + value.chunk, Len(value.cells))]

\* value[index_slice].compute()
Compute(value, sl) == SubSeq(value.cells, sl.start + 1, sl.stop)

\* The end of Markers._get_cache_dask_kwargs_chunk: the values at the index,
\* taken from every cache entry at the index less the start of the slice.
CacheLookup(m2, indices, slices, invoked) ==
    IF \E k \in DOMAIN m2.cache :
          \/ indices - slices[k].start + 1 < 1
          \/ indices - slices[k].start + 1 > Len(m2.cache[k])
    THEN [st |-> "err", m |-> m2, invoked |-> invoked, out |-> << >>]
    ELSE [st |-> "ok", m |-> m2, invoked |-> invoked,
          out |-> [k \in DOMAIN m2.cache |->
                      m2.cache[k][indices - slices[k].start + 1]]]

\* The materialization loop: done are the arguments materialized before the
\* one that raises (all of to_compute when none raises).
CacheCompute(m, indices, slices, to_compute, done, raises, failKey) ==
    IF raises
    THEN [st |-> "err", invoked |-> done \cup {failKey}, out |-> << >>,
          m |-> [m EXCEPT
                   !.cache_slice = [k \in DOMAIN m.cache_slice \cup to_compute |->
                                       IF k \in to_compute THEN slices[k]
                                       ELSE m.cache_slice[k]],
                   !.cache = [k \in DOMAIN m.cache \cup done |->
                                 IF k \in done THEN Compute(m.kwargs[k], slices[k])
                                 ELSE m.cache[k]]]]
    ELSE CacheLookup(
            [m EXCEPT
               !.cache_slice = [k \in DOMAIN m.cache_slice \cup to_compute |->
                                   IF k \in to_compute THEN slices[k]
                                   ELSE m.cache_slice[k]],
               !.cache = [k \in DOMAIN m.cache \cup done |->
                             IF k \in done THEN Compute(m.kwargs[k], slices[k])
                             ELSE m.cache[k]]],
            indices, slices, to_compute)

\* The first loop: the slice of every argument whose cached slice differs is
\* recorded, and the argument is to be materialized.
CacheCheck(m, indices, slices, to_compute, failKey) ==
    IF \E k \in m.dask_kwargs : slices[k] = NoneV
    THEN [st |-> "err", m |-> m, invoked |-> {}, out |-> << >>]
    ELSE CacheCompute(m, indices, slices, to_compute,
                      IF failKey \in to_compute
                      THEN {k \in to_compute : KeyIdx(k) < KeyIdx(failKey)}
                      ELSE to_compute,
                      failKey \in to_compute, failKey)

StaleSlices(m, slices) ==
    {k \in m.dask_kwargs : k \notin DOMAIN m.cache_slice \/ m.cache_slice[k] # slices[k]}

\* Markers._get_cache_dask_kwargs_chunk.  failKey is the lazy argument whose
\* materialization raises at this call ("" when none does).
GetCacheDaskKwargsChunk(m, indices, failKey) ==
    CacheCheck(m, indices,
               [k \in m.dask_kwargs |-> ChunkSlice(indices, m.kwargs[k])],
               StaleSlices(m, [k \in m.dask_kwargs |-> ChunkSlice(indices, m.kwargs[k])]),
               failKey)

(***************************************************************************)
(* Draw-time queries                                                       *)
(***************************************************************************)
Raised(m, invoked) ==
    [st |-> "err", out |-> << >>, alias |-> FALSE, m |-> m, invoked |-> invoked]
Returned(out, alias, m, invoked) ==
    [st |-> "ok", out |-> out, alias |-> alias, m |-> m, invoked |-> invoked]

\* np.round(n / d) for d > 0: to the nearest integer, a half to the even one.
Round(n, d) ==
    IF 2 * (n % d) < d THEN n \div d
    ELSE IF 2 * (n % d) > d THEN (n \div d) + 1
    ELSE IF (n \div d) % 2 = 0 THEN n \div d ELSE (n \div d) + 1

\* np.round((x_positions - ax.offset) / ax.scale).astype(int)
SampleIndex(x, ax) == Round(x - ax.offset, ax.scale)

\* current_data[index]: a negative index counts from the end.
Sample(data, index) == IF index < 0 THEN data[index + SigLen] ELSE data[index]

TraceMax(data) == CHOOSE v \in {data[x] : x \in DOMAIN data} : \A x \in DOMAIN data : data[x] <= v
TraceMin(data) == CHOOSE v \in {data[x] : x \in DOMAIN data} : \A x \in DOMAIN data : data[x] >= v

\* self.shift * yrange; the shift is the fraction num / den.
ShiftTerm(shift, data) ==
    IF shift = NoneV THEN 0
    ELSE (shift.num * (TraceMax(data) - TraceMin(data))) \div shift.den

Mutant_ScalePair_unshifted(x, f, data, shift, ax) == Sample(data, SampleIndex(x, ax)) * f

\* One point (x, f) of an entry under the relative transform.
ScalePair(x, f, data, shift, ax) ==
    Sample(data, SampleIndex(x, ax)) * f + ShiftTerm(shift, data)

ScaleRow(row, data, shift, ax) ==
    [j \in 1 .. Len(row) |->
        IF j % 2 = 1 THEN row[j] ELSE ScalePair(row[j - 1], row[j], data, shift, ax)]

Mutant_CanScale_any_host(value, host) ==
    /\ value.t = "arr"
    /\ value.w % 2 = 0
    /\ \A r \in 1 .. Len(value.rows) :
          \A j \in 1 .. value.w :
              j % 2 = 1 => SampleIndex(value.rows[r][j], HostAxis(host)) \in -SigLen .. SigLen - 1

\* The entry is an array of points and every sample index is one of the trace.
CanScale(value, host) ==
    /\ Host1D(host)
    /\ value.t = "arr"
    /\ value.w % 2 = 0
    /\ \A r \in 1 .. Len(value.rows) :
          \A j \in 1 .. value.w :
              j % 2 = 1 => SampleIndex(value.rows[r][j], HostAxis(host)) \in -SigLen .. SigLen - 1

\* Markers._scale_kwarg: the y of every point becomes trace[index of x] * y,
\* plus shift * (max(trace) - min(trace)).
ScaleKwarg(m, kwds, key, indices) ==
    IF key \in DOMAIN kwds
    THEN Put(kwds, key,
             Arr(kwds[key].w,
                 [r \in 1 .. Len(kwds[key].rows) |->
                     ScaleRow(kwds[key].rows[r], Trace(indices), m.shift,
                              HostAxis(m.signal))]))
    ELSE kwds

\* The end of Markers.get_data_position: the relative markers are scaled.
Modified(m, indices, get_modified, current, alias, m2, invoked) ==
    IF /\ get_modified
       /\ m.offsets_transform = "relative" \/ m.transform = "relative"
       /\ {"offsets", "segments"} \cap DOMAIN current # {}
    THEN IF \/ ~m.temp_signal
            \/ \E k \in {"offsets", "segments"} \cap DOMAIN current : ~CanScale(current[k], m.signal)
         THEN Raised(m2, invoked)
         ELSE Returned(ScaleKwarg(m, ScaleKwarg(m, current, "offsets", indices),
                                  "segments", indices),
                       FALSE, m2, invoked)
    ELSE Returned(current, alias, m2, invoked)

\* The selection of an iterating argument in Markers.get_data_position.
Wrap(key, val) ==
    IF key \in {"sizes", "color"} /\ val.t = "scalar" THEN Tup(val.x) ELSE val

EagerKeys(m) ==
    {k \in DOMAIN m.kwargs : is_iterating(m.kwargs[k]) /\ k \notin m.dask_kwargs}
StaticKeys(m) == {k \in DOMAIN m.kwargs : ~is_iterating(m.kwargs[k])}

\* current_keys of an iterating collection, updated with the lazy arguments.
Selected(m, indices, get_modified, picked, lazy) ==
    IF lazy.st = "err" THEN Raised(lazy.m, lazy.invoked)
    ELSE Modified(m, indices, get_modified,
                  [k \in picked \cup DOMAIN lazy.out |->
                      IF k \in DOMAIN lazy.out THEN lazy.out[k]
                      ELSE IF is_iterating(m.kwargs[k])
                      THEN Wrap(k, m.kwargs[k].cells[indices + 1])
                      ELSE m.kwargs[k]],
                  FALSE, lazy.m, lazy.invoked)

\* Markers.get_data_position(get_static_kwargs, get_modified) at the host's
\* navigation index.
GetDataPosition(m, indices, get_static_kwargs, get_modified, failKey) ==
    IF ~IsIteratingProp(m)
    THEN Modified(m, indices, get_modified, m.kwargs, TRUE, m, {})
    ELSE IF ~m.axes_manager \/ \E k \in EagerKeys(m) : indices >= Len(m.kwargs[k].cells)
    THEN Raised(m, {})
    ELSE Selected(m, indices, get_modified,
                  EagerKeys(m) \cup (IF get_static_kwargs THEN StaticKeys(m) ELSE {}),
                  IF m.dask_kwargs # {}
                  THEN GetCacheDaskKwargsChunk(m, indices, failKey)
                  ELSE [st |-> "ok", m |-> m, invoked |-> {}, out |-> << >>])

\* _EqualWidthsHeightsMarkers.get_data_position, after the call of the base
\* class: sizes is popped from a deep copy and becomes widths and heights.
EqualModified(r, get_modified) ==
    IF r.st = "err" \/ ~get_modified THEN r
    ELSE IF "sizes" \notin DOMAIN r.out
    THEN Raised(r.m, r.invoked)
    ELSE Returned(Put(Put(Pop(r.out, "sizes"), "widths", r.out["sizes"]),
                      "heights", r.out["sizes"]),
                  FALSE, r.m, r.invoked)

Mutant_HSegments_vertical(y_pos) ==
    Arr(4, [j \in 1 .. Len(y_pos.rows) |-> <<y_pos.rows[j][1], 0, y_pos.rows[j][1], 1>>])

\* The segments HorizontalLines and VerticalLines build from the offsets.
HSegments(y_pos) ==
    Arr(4, [j \in 1 .. Len(y_pos.rows) |-> <<0, y_pos.rows[j][1], 1, y_pos.rows[j][1]>>])
VSegments(x_pos) ==
    Arr(4, [j \in 1 .. Len(x_pos.rows) |-> <<x_pos.rows[j][1], 0, x_pos.rows[j][1], 1>>])

\* kwargs.pop("offsets"); kwargs["segments"] = new_segments on the dictionary
\* the base class returned, which is self.kwargs itself when r.alias.
PopOffsets(r, out) ==
    Returned(out, r.alias, IF r.alias THEN [r.m EXCEPT !.kwargs = out] ELSE r.m, r.invoked)

\* HorizontalLines.get_data_position, after the call of the base class.
HorizontalModified(r, get_modified) ==
    IF r.st = "err" \/ ~get_modified THEN r
    ELSE IF "offsets" \notin DOMAIN r.out
    THEN Raised(r.m, r.invoked)
    ELSE IF r.out["offsets"].t # "arr"
    THEN Raised(IF r.alias THEN [r.m EXCEPT !.kwargs = Pop(r.out, "offsets")] ELSE r.m,
                r.invoked)
    ELSE PopOffsets(r, Put(Pop(r.out, "offsets"), "segments", HSegments(r.out["offsets"])))

\* VerticalLines.get_data_position, after the call of the base class: x_pos is
\* bound only when get_modified.
VerticalModified(r, get_modified) ==
    IF r.st = "err" THEN r
    ELSE IF ~get_modified \/ "offsets" \notin DOMAIN r.out
    THEN Raised(r.m, r.invoked)
    ELSE IF r.out["offsets"].t # "arr"
    THEN Raised(IF r.alias THEN [r.m EXCEPT !.kwargs = Pop(r.out, "offsets")] ELSE r.m,
                r.invoked)
    ELSE PopOffsets(r, Put(Pop(r.out, "offsets"), "segments", VSegments(r.out["offsets"])))

\* The adapter's part of get_data_position, by the class of the collection;
\* every adapter calls the base class with get_modified left at its default.
AdapterModified(m, r, get_modified) ==
    CASE m.marker_type \in EqualKinds -> EqualModified(r, get_modified)
      [] m.marker_type = "HorizontalLines" -> HorizontalModified(r, get_modified)
      [] m.marker_type = "VerticalLines" -> VerticalModified(r, get_modified)
      [] OTHER -> r

\* get_data_position as the class of the collection defines it.
get_data_position(m, indices, get_static_kwargs, get_modified, failKey) ==
    AdapterModified(m,
        GetDataPosition(m, indices, get_static_kwargs,
                        IF m.marker_type \in EqualKinds \cup {"HorizontalLines", "VerticalLines"}
                        THEN TRUE ELSE get_modified,
                        failKey),
        get_modified)

(***************************************************************************)
(* The argument store: append and delete                                   *)
(***************************************************************************)
Mutant_DeleteAt_last(rows, index) == SubSeq(rows, 1, Len(rows) - 1)

DeleteAt(rows, index) ==
    [j \in 1 .. Len(rows) - 1 |-> IF j <= index THEN rows[j] ELSE rows[j + 1]]

\* np.delete(arr, index, axis=0) raises when index is out of bounds;
\* np.append(arr, value, axis=0) raises when the entries differ in shape.
CanDelete(cell, index) == cell.t = "arr" /\ index < Len(cell.rows)
CanAppend(cell, value) == cell.t = "arr" /\ cell.w = value.w
NpDelete(cell, index) == Arr(cell.w, DeleteAt(cell.rows, index))
NpAppend(cell, value) == Arr(cell.w, cell.rows \o value.rows)

\* A modification: [op |-> "delete", index] or [op |-> "append", value].
Can(cell, mod) ==
    IF mod.op = "delete" THEN CanDelete(cell, mod.index) ELSE CanAppend(cell, mod.value)
Apply(cell, mod) ==
    IF mod.op = "delete" THEN NpDelete(cell, mod.index) ELSE NpAppend(cell, mod.value)

\* The loop over np.ndindex of an object array: every position before the
\* first one that raises has been assigned.
FirstBad(cells, mod) ==
    IF \E i \in 1 .. Len(cells) : ~Can(cells[i], mod)
    THEN CHOOSE i \in 1 .. Len(cells) :
            ~Can(cells[i], mod) /\ \A j \in 1 .. i - 1 : Can(cells[j], mod)
    ELSE Len(cells) + 1

InPlaceUpTo(value, mod, bad) ==
    [ok |-> bad > Len(value.cells),
     value |-> [value EXCEPT !.cells =
                   [i \in 1 .. Len(value.cells) |->
                       IF i < bad THEN Apply(value.cells[i], mod)
                       ELSE value.cells[i]]]]

InPlace(value, mod) == InPlaceUpTo(value, mod, FirstBad(value.cells, mod))

\* One key of delete_index / append_kwarg.
ModifyKey(value, mod) ==
    IF value.t = "obj" THEN InPlace(value, mod)
    ELSE IF value.t = "arr" /\ Can(value, mod)
    THEN [ok |-> TRUE, value |-> Apply(value, mod)]
    ELSE [ok |-> FALSE, value |-> value]

\* The loop over the keys: it stops at the first key that raises.
RECURSIVE ModifyKeys(_, _, _)
ModifyRest(kwargs, keys, mod, r) ==
    IF r.ok
    THEN ModifyKeys([kwargs EXCEPT ![Head(keys)] = r.value], Tail(keys), mod)
    ELSE [ok |-> FALSE, kwargs |-> [kwargs EXCEPT ![Head(keys)] = r.value]]

ModifyKeys(kwargs, keys, mod) ==
    IF keys = << >> THEN [ok |-> TRUE, kwargs |-> kwargs]
    ELSE IF Head(keys) \notin DOMAIN kwargs THEN [ok |-> FALSE, kwargs |-> kwargs]
    ELSE ModifyRest(kwargs, keys, mod, ModifyKey(kwargs[Head(keys)], mod))

Stored(m, r) == [ok |-> r.ok, m |-> [m EXCEPT !.kwargs = r.kwargs]]

\* Markers.delete_index
delete_index(m, keys, index) ==
    Stored(m, ModifyKeys(m.kwargs, keys, [op |-> "delete", index |-> index]))

\* Markers.append_kwarg
append_kwarg(m, keys, value) ==
    IF Len(value.rows) = 0 THEN [ok |-> TRUE, m |-> m]
    ELSE Stored(m, ModifyKeys(m.kwargs, keys, [op |-> "append", value |-> value]))

(***************************************************************************)
(* The record round trip                                                   *)
(***************************************************************************)
\* Markers._to_dictionary
to_dictionary(m) ==
    [marker_type |-> m.marker_type,
     collection_class |-> m.collection_class,
     plot_on_signal |-> m.plot_on_signal,
     offsets_transform |-> m.offsets_transform,
     same_object |-> m.same_object,
     transform |-> m.transform,
     kwargs |-> m.kwargs]

\* A field of the data of a legacy record: a number, or a 1-D array with one
\* number per navigation position.
Nav(vals) == [t |-> "nav", vals |-> vals]
isiterable(field) == field.t = "nav"

\* The fields of a legacy record in the order of np.unique.
FieldSeq == <<"size", "text", "x1", "x2", "y1", "y2">>

\* unique_keys[is_key_iter] of dict2vector
IterKeys(data, keys) ==
    SelectSeq(FieldSeq, LAMBDA k : (\E j \in 1 .. Len(keys) : keys[j] = k) /\ isiterable(data[k]))

\* data[k] = np.full(shape=nav_shape, fill_value=data[k]) for the keys that
\* do not iterate: the data of the record is assigned to.
Filled(data, keys, nav_shape) ==
    [k \in DOMAIN data |->
        IF (\E j \in 1 .. Len(keys) : keys[j] = k) /\ ~isiterable(data[k])
        THEN Nav([i \in 1 .. nav_shape |-> data[k].x])
        ELSE data[k]]

\* The ragged vector of dict2vector: at every position the values of the keys.
Ragged2Vector(data, keys, nav_shape) ==
    IF \E j \in 1 .. Len(keys) : Len(data[keys[j]].vals) < nav_shape
    THEN [ok |-> FALSE, data |-> data]
    ELSE [ok |-> TRUE, data |-> data,
          vector |-> Obj([i \in 1 .. nav_shape |->
                            Arr(Len(keys), <<[j \in 1 .. Len(keys) |->
                                                data[keys[j]].vals[i]]>>)])]

\* dict2vector(data, keys, return_size=False) for the numeric fields: keys
\* is the array of keys, flattened; data is the data after the call.
dict2vector(data, keys) ==
    IF \E j \in 1 .. Len(keys) : keys[j] \notin DOMAIN data
    THEN [ok |-> FALSE, data |-> data]
    ELSE IF IterKeys(data, keys) = << >>
    THEN [ok |-> TRUE, data |-> data,
          vector |-> Arr(Len(keys), <<[j \in 1 .. Len(keys) |-> data[keys[j]].x]>>)]
    ELSE Ragged2Vector(Filled(data, keys, Len(data[IterKeys(data, keys)[1]].vals)), keys,
                       Len(data[IterKeys(data, keys)[1]].vals))

\* The size dict2vector returns with return_size=True.
Size(data) ==
    IF ~isiterable(data["size"]) THEN data["size"]
    ELSE Obj([i \in 1 .. Len(data["size"].vals) |-> Scalar(data["size"].vals[i])])

\* keys=None in dict2vector
DefaultKeys == <<"x1", "x2">>

\* The keys of a rectangle with its second and third vertices exchanged.
Mutant_RectangleKeys_crossed == <<"x1", "y1", "x2", "y2", "x2", "y1", "x1", "y2">>

\* The keys markers2collection gives for the legacy type Rectangle.
RectangleKeys == <<"x1", "y1", "x2", "y1", "x2", "y2", "x1", "y2">>

\* The marker types of hyperspy 1.x and the classes of marker_mapping.
LegacyKinds ==
    {"Point", "HorizontalLine", "HorizontalLineSegment", "LineSegment", "Arrow",
     "Rectangle", "Ellipse", "Text", "VerticalLine", "VerticalLineSegment"}
MappedKinds == AdapterKinds \cup {"Arrows", "Lines", "Polygons"}

\* The record after the four pops of markers2collection.
Popped(marker_dict) ==
    [k \in DOMAIN marker_dict \ {"marker_type", "plot_on_signal", "offsets_transform",
                                  "same_object", "transform"} |-> marker_dict[k]]

\* The end of markers2collection: marker.plot_on_signal = plot_on_signal.
FromConstructed(c, plot_on_signal, record) ==
    IF c.ok
    THEN [st |-> "ok", m |-> [c.m EXCEPT !.attr_plot_on_signal = plot_on_signal],
          marker_dict |-> record]
    ELSE [st |-> "err", named |-> "", marker_dict |-> record]

\* The constructor arguments markers2collection gives for a legacy record.
LegacyArgs(kw) ==
    [transform |-> "absent", offsets_transform |-> "absent",
     collection_class |-> "PolyCollection", shift |-> NoneV,
     same_object |-> TRUE, same_transform |-> TRUE, kwargs |-> kw]

\* The branch of a legacy type whose collection is made from one vector v:
\* the data of the record is the data dict2vector has left.
FromVector(kind, key, v, marker_dict, record) ==
    IF ~v.ok
    THEN [st |-> "err", named |-> "", marker_dict |-> [record EXCEPT !["data"] = v.data]]
    ELSE FromConstructed(
            Construct(kind,
                      LegacyArgs(IF kind = "Points"
                                 THEN [k \in {"offsets", "sizes"} |->
                                          IF k = "offsets" THEN v.vector
                                          ELSE Size(marker_dict["data"])]
                                 ELSE [k \in {key} |-> v.vector])),
            marker_dict["plot_on_signal"], [record EXCEPT !["data"] = v.data])

\* The branches of markers2collection for the legacy marker types.
FromLegacy(marker_type, marker_dict, record) ==
    CASE marker_type = "Point" ->
            FromVector("Points", "offsets", dict2vector(marker_dict["data"], DefaultKeys),
                       marker_dict, record)
      [] marker_type = "HorizontalLine" ->
            FromVector("HorizontalLines", "offsets", dict2vector(marker_dict["data"], <<"y1">>),
                       marker_dict, record)
      [] marker_type = "VerticalLine" ->
            FromVector("VerticalLines", "offsets", dict2vector(marker_dict["data"], <<"x1">>),
                       marker_dict, record)
      [] marker_type = "Rectangle" ->
            FromVector("Markers", "verts", dict2vector(marker_dict["data"], RectangleKeys),
                       marker_dict, record)
      [] OTHER -> [st |-> "unmodelled", marker_dict |-> record]

\* The tag marker_dict.pop(key, None) gives.
PoppedTag(marker_dict, key) == IF key \in DOMAIN marker_dict THEN marker_dict[key] ELSE "None"

\* The branch of markers2collection for the records of the marker classes.
FromCurrent(marker_type, marker_dict, record) ==
    FromConstructed(
        Construct(marker_type,
                  [transform |-> PoppedTag(marker_dict, "transform"),
                   offsets_transform |-> PoppedTag(marker_dict, "offsets_transform"),
                   collection_class |-> marker_dict["collection_class"],
                   shift |-> NoneV,
                   same_object |-> marker_dict["same_object"],
                   same_transform |-> TRUE,
                   kwargs |-> marker_dict["kwargs"]]),
        marker_dict["plot_on_signal"], record)

\* An unknown marker type converted to the empty result instead of an error.
Mutant_Unknown_empty(marker_type, record) == [st |-> "empty", marker_dict |-> record]

\* The last branch of markers2collection: the ValueError that names the
\* marker type.
Unknown(marker_type, record) == [st |-> "err", named |-> marker_type, marker_dict |-> record]

\* markers2collection: the result, and the record as the call leaves it.  The
\* classes Arrows, Lines and Polygons and the legacy types converted to them
\* are not modelled.
markers2collection(marker_dict) ==
    IF DOMAIN marker_dict = {} THEN [st |-> "empty", marker_dict |-> marker_dict]
    ELSE IF "marker_type" \notin DOMAIN marker_dict
    THEN [st |-> "err", named |-> "", marker_dict |-> marker_dict]
    ELSE IF "plot_on_signal" \notin DOMAIN marker_dict
    THEN [st |-> "err", named |-> "",
          marker_dict |-> [k \in DOMAIN marker_dict \ {"marker_type"} |-> marker_dict[k]]]
    ELSE IF marker_dict["marker_type"] \in LegacyKinds
    THEN FromLegacy(marker_dict["marker_type"], marker_dict, Popped(marker_dict))
    ELSE IF marker_dict["marker_type"] \in AdapterKinds \cup {"Markers"}
    THEN FromCurrent(marker_dict["marker_type"], marker_dict, Popped(marker_dict))
    ELSE IF marker_dict["marker_type"] \in MappedKinds
    THEN [st |-> "unmodelled", marker_dict |-> Popped(marker_dict)]
    ELSE Unknown(marker_dict["marker_type"], Popped(marker_dict))

\* Markers.__deepcopy__
deepcopy(m) == markers2collection(to_dictionary(m))

(***************************************************************************)
(* The life cycle                                                          *)
(***************************************************************************)
\* Largest number of drawables one collection creates.
MaxPlots == 2

\* collection.set(**kwds) in Markers.update
Updated(m, r) ==
    [st |-> IF r.st = "ok" /\ m.collection # 0 THEN "ok" ELSE "err",
     queried |-> TRUE, out |-> r.out, m |-> r.m, invoked |-> r.invoked]

\* Markers.update: the redraw after a change of the navigation index.
update(m, indices, failKey) ==
    IF m.transform = "relative" \/ m.offsets_transform = "relative" \/ IsIteratingProp(m)
    THEN Updated(m, get_data_position(m, indices, FALSE, TRUE, failKey))
    ELSE [st |-> "ok", queried |-> FALSE, out |-> << >>, m |-> m, invoked |-> {}]

\* The tags Markers._get_transform resolves for the render transform only.
ScaleOnly == {"xaxis_scale", "yaxis_scale"}

\* Markers._get_transform of an attached collection: the lookup of the tag
\* raises for a scale-only offsets_transform.
Resolves(attr, tag) == attr = "transform" \/ tag \notin ScaleOnly

\* Markers._initialize_collection and ax.add_collection: id is the new drawable.
Initialized(r, id) ==
    IF r.st = "ok" /\ Resolves("offsets_transform", r.m.offsets_transform)
    THEN [st |-> "ok", queried |-> TRUE, out |-> r.out,
          m |-> [r.m EXCEPT !.collection = id,
                            !.coll_offsets_transform = r.m.offsets_transform,
                            !.coll_transform = r.m.transform],
          invoked |-> r.invoked, added |-> {id}]
    ELSE [st |-> "err", queried |-> TRUE, out |-> << >>, m |-> r.m,
          invoked |-> r.invoked, added |-> {}]

\* Markers.plot
plot(m, indices, id, failKey) ==
    IF ~m.ax
    THEN [st |-> "err", queried |-> FALSE, out |-> << >>, m |-> m, invoked |-> {},
          added |-> {}]
    ELSE Initialized(get_data_position(m, indices, TRUE, TRUE, failKey), id)

Mutant_SetTransformAttr_store(m, attr, value) ==
    [ok |-> value \in TransformTags, m |-> [m EXCEPT ![attr] = value]]

\* Markers._set_transform
SetTransformAttr(m, attr, value) ==
    IF value \notin TransformTags THEN [ok |-> FALSE, m |-> m]
    ELSE [ok |-> TRUE,
          m |-> [m EXCEPT ![attr] = value,
                          !.same_object = (attr = "offsets_transform") \/ @]]

\* The end of both setters: self.update() on the live drawable.
SetterUpdated(u) == [ok |-> u.st = "ok", m |-> u.m]

\* "setting live plot" in the setters: the drawable takes the resolved
\* transform, then the collection is redrawn.
SetLive(s, attr, value, indices, failKey) ==
    IF ~s.ok \/ s.m.collection = 0 \/ ~s.m.ax THEN s
    ELSE IF ~Resolves(attr, value) THEN [ok |-> FALSE, m |-> s.m]
    ELSE SetterUpdated(
            update(IF attr = "transform" THEN [s.m EXCEPT !.coll_transform = value]
                   ELSE [s.m EXCEPT !.coll_offsets_transform = value],
                   indices, failKey))

\* The setter of Markers.offsets_transform
set_offsets_transform(m, value, indices, failKey) ==
    SetLive(SetTransformAttr(m, "offsets_transform", value), "offsets_transform", value,
            indices, failKey)

\* The setter of Markers.transform
set_transform(m, value, indices, failKey) ==
    SetLive(SetTransformAttr(m, "transform", value), "transform", value, indices, failKey)

\* Markers.close: removed is the drawable taken off the axes, notified the
\* number of closed notifications triggered.
close(m) ==
    IF m.closing
    THEN [st |-> "ok", m |-> m, removed |-> {}, notified |-> 0]
    ELSE IF m.collection = 0
    THEN [st |-> "err", m |-> [m EXCEPT !.closing = TRUE], removed |-> {}, notified |-> 0]
    ELSE [st |-> "ok", m |-> [m EXCEPT !.closing = TRUE, !.temp_signal = FALSE],
          removed |-> {m.collection}, notified |-> 1]

\* Markers._get_data_shape: the length of the first iterating argument, -1
\* when there is none.
FirstShape(kwargs, it) == IF it = << >> THEN -1 ELSE Len(kwargs[it[1]].cells)
get_data_shape(m) ==
    FirstShape(m.kwargs, SelectSeq(KeysIn(m.kwargs), LAMBDA k : is_iterating(m.kwargs[k])))

Bound(m, host, on_signal) ==
    [m EXCEPT !.plot_on_signal = on_signal, !.signal = host, !.ax = TRUE,
              !.axes_manager = TRUE, !.temp_signal = TRUE]

Mutant_attach_again(m, host, on_signal) ==
    [ok |-> get_data_shape(m) \in {-1, NavSize}, m |-> Bound(m, host, on_signal)]

\* The host's add_marker up to the call of plot: the collection is bound to
\* the host and to the axes of the signal view or of the navigator view.
attach(m, host, on_signal) ==
    IF m.signal # 0 THEN [ok |-> FALSE, m |-> m]
    ELSE IF get_data_shape(m) \notin {-1, NavSize} THEN [ok |-> FALSE, m |-> m]
    ELSE [ok |-> TRUE, m |-> Bound(m, host, on_signal)]

(***************************************************************************)
(* State                                                                   *)
(***************************************************************************)
VARIABLES
    m,              \* the collection
    indices,        \* the navigation index of the host
    out,            \* the outcome of the last call
    axes,           \* the drawables on the axes of the host
    next_id,        \* the next drawable to be created
    closed_count,   \* the closed notifications triggered so far
    drawn_closes,   \* the close calls made on the drawn collection so far
    run,            \* per lazy argument: the chunk of the current run of
                    \* requests and the materializations invoked in it
    copy,           \* the deep copy of m the caller holds, and the arguments
                    \* whose arrays it shares with m
    marker_dict     \* the record the caller holds

vars == <<m, indices, out, axes, next_id, closed_count, drawn_closes, run, copy, marker_dict>>

\* Constructor arguments
Args(tr, otr, kw) ==
    [transform |-> tr, offsets_transform |-> otr, collection_class |-> "LineCollection",
     shift |-> NoneV, same_object |-> TRUE, same_transform |-> TRUE, kwargs |-> kw]
Kw1(k1, v1) == [k \in {k1} |-> v1]
Kw2(k1, v1, k2, v2) == [k \in {k1, k2} |-> IF k = k1 THEN v1 ELSE v2]

\* Length of the chunks of a lazy argument along the navigation axis.
ChunkLen == 2

Row2(x, y) == <<x, y>>
\* a ragged argument: two marker instances at the odd positions, one at the even
Ragged(i) == [j \in 1 .. (IF i % 2 = 1 THEN 2 ELSE 1) |-> Row2((i + j) % SigLen, 1)]
RaggedCells(n) == [i \in 1 .. n |-> Arr(2, Ragged(i))]
SizeCells == [i \in 1 .. NavSize |-> Scalar(i + 2)]
LineCells == [i \in 1 .. NavSize |-> Arr(1, [j \in 1 .. (IF i % 2 = 1 THEN 1 ELSE 2) |-> <<i + j>>])]
SegmentCells == [i \in 1 .. NavSize |-> Arr(4, <<<<i % SigLen, 1, i % SigLen, 2>>>>)]

OffsetsStatic == Arr(2, <<Row2(0, 1), Row2(1, 1)>>)
OffsetsIter == Obj(RaggedCells(NavSize))
\* two marker instances at every navigation position
PairCells == [i \in 1 .. NavSize |-> Arr(2, <<Row2(0, i), Row2(1, i)>>)]
OffsetsPair == Obj(PairCells)
\* an argument of a navigation shape other than the host's
OffsetsShort == Obj(RaggedCells(NavSize - 1))
OffsetsLazy == Dask(ChunkLen, RaggedCells(NavSize))
SizesIter == Obj(SizeCells)
SizesLazy == Dask(ChunkLen, SizeCells)
\* sizes of a navigation shape other than the host's
SizesShort == Obj([i \in 1 .. NavSize - 1 |-> Scalar(i + 2)])
LineOffsetsStatic == Arr(1, <<<<2>>, <<3>>>>)
LineOffsetsIter == Obj(LineCells)
SegmentsStatic == Arr(4, <<<<0, 1, 0, 2>>, <<1, 1, 1, 2>>>>)
SegmentsIter == Obj(SegmentCells)
WidthsStatic == Arr(1, <<<<1>>, <<2>>>>)
\* two strings, each written as the number of its characters
TextsStatic == Arr(1, <<<<1>>, <<2>>>>)

\* points (x, f) and segments of relative markers: the y is a fraction
RelOffsets == Arr(2, <<Row2(0, 1), Row2(1, 2), Row2(2, 3)>>)
RelSegments == Arr(4, <<<<0, 0, 0, 1>>, <<1, 0, 2, 2>>>>)
\* the shifts given to the constructors: none, 1 / (SigLen - 1) and 1
Shifts == {NoneV, [num |-> 1, den |-> SigLen - 1], [num |-> 1, den |-> 1]}

Constructed(calls) == {c.m : c \in {x \in calls : x.ok}}

\* The collections of the specification Spec, as their constructors make them.
StoreCollections ==
    Constructed(
        {Construct(k, Args("absent", "absent", Kw2("offsets", o, "sizes", z))) :
            k \in EqualKinds, o \in {OffsetsStatic, OffsetsIter},
            z \in {Scalar(1), SizesIter}}
        \cup {Construct(k, Args("absent", "absent", Kw1("offsets", o))) :
            k \in {"HorizontalLines", "VerticalLines"},
            o \in {LineOffsetsStatic, LineOffsetsIter}}
        \cup {Construct("Markers", Args(t, "display", Kw1("segments", g))) :
            t \in {"display", "relative"}, g \in {SegmentsStatic, SegmentsIter}}
        \cup {Construct("Points", Args("absent", "absent",
                                       Kw2("offsets", o, "sizes", Scalar(1)))) :
            o \in {OffsetsShort, OffsetsPair}}
        \cup {Construct(k, Args("absent", "absent",
                                Put(Kw2("offsets", OffsetsStatic, "widths", WidthsStatic),
                                    "heights", WidthsStatic))) :
            k \in {"Ellipses", "Rectangles"}}
        \cup {Construct("Texts", Args("absent", "absent",
                                      Kw2("offsets", OffsetsStatic, "texts", TextsStatic)))})

\* The collections of the specification SpecCache: lazy arguments.
CacheCollections ==
    Constructed(
        {Construct("Markers", Args("display", "data", Kw2("offsets", o, "sizes", z))) :
            o \in {OffsetsLazy, OffsetsIter}, z \in {Scalar(1), SizesIter, SizesLazy}})

\* The collections of the specification SpecLife.
LifeCollections ==
    Constructed(
        {Construct("Points", Args("absent", "absent", Kw2("offsets", o, "sizes", Scalar(1)))) :
            o \in {OffsetsStatic, OffsetsIter, OffsetsShort}}
        \cup {Construct("Points", Args("absent", "absent",
                                       Kw2("offsets", OffsetsIter, "sizes", SizesShort)))}
        \cup {Construct("Markers", Args(t, "display", Kw1("segments", g))) :
            t \in {"display", "relative"}, g \in {SegmentsStatic, SegmentsIter}})

NoOut == [op |-> "init", st |-> "ok", queried |-> FALSE, val |-> << >>, arg |-> << >>]
Outcome(op, st, queried, val, arg) ==
    [op |-> op, st |-> st, queried |-> queried, val |-> val, arg |-> arg]

\* The run of same-chunk requests after a request at index i that invoked the
\* materialization of the arguments in invoked.
RunOf(k, sl, n) ==
    IF k \in DOMAIN run /\ run[k].slice = sl
    THEN [slice |-> sl, n |-> run[k].n + n]
    ELSE [slice |-> sl, n |-> n]
NextRun(c, i, invoked) ==
    [k \in c.dask_kwargs |->
        RunOf(k, ChunkSlice(i, c.kwargs[k]), IF k \in invoked THEN 1 ELSE 0)]
Requested(c, i, invoked) ==
    IF IsIteratingProp(c) /\ c.axes_manager /\ c.dask_kwargs # {}
       /\ \A k \in EagerKeys(c) : i < Len(c.kwargs[k].cells)
    THEN NextRun(c, i, invoked) ELSE run

FailKeys == {""} \cup m.dask_kwargs

(***************************************************************************)
(* Actions                                                                 *)
(***************************************************************************)
Drawn(c, p, op, arg) ==
    /\ m' = p.m
    /\ axes' = axes \cup p.added
    /\ next_id' = IF p.added = {} THEN next_id ELSE next_id + 1
    /\ run' = IF p.queried THEN Requested(c, indices, p.invoked) ELSE run
    /\ out' = Outcome(op, p.st, p.queried, p.out, arg)

Attached(a, failKey, arg) ==
    IF a.ok
    THEN Drawn(a.m, plot(a.m, indices, next_id, failKey), "add_marker", arg)
    ELSE /\ out' = Outcome("add_marker", "err", FALSE, << >>, arg)
         /\ UNCHANGED <<m, axes, next_id, run>>

\* host.add_marker(m, plot_on_signal=on_signal): attach, then plot.
AddMarker(host, on_signal) ==
    /\ next_id <= MaxPlots
    /\ \E failKey \in FailKeys :
          Attached(attach(m, host, on_signal), failKey,
                   [host |-> host, bound |-> m.signal])
    /\ UNCHANGED <<copy, marker_dict, indices, closed_count, drawn_closes>>

\* m.plot()
Plot ==
    /\ next_id <= MaxPlots
    /\ \E failKey \in FailKeys :
          Drawn(m, plot(m, indices, next_id, failKey), "plot", << >>)
    /\ UNCHANGED <<copy, marker_dict, indices, closed_count, drawn_closes>>

Closed(c) ==
    /\ m' = c.m
    /\ axes' = axes \ c.removed
    /\ closed_count' = closed_count + c.notified
    /\ out' = Outcome("close", c.st, FALSE, << >>,
                      [drawn |-> m.collection # 0, earlier |-> drawn_closes])

\* m.close()
Close ==
    /\ Closed(close(m))
    /\ drawn_closes' = IF m.collection # 0 THEN Min(drawn_closes + 1, 2) ELSE drawn_closes
    /\ UNCHANGED <<copy, marker_dict, indices, next_id, run>>

Redrawn(u, j) ==
    /\ m' = u.m
    /\ run' = IF u.queried THEN Requested(m, j, u.invoked) ELSE run
    /\ out' = Outcome("navigate", u.st, u.queried, u.out, << >>)

\* The host moves to the navigation index j and redraws the markers on its axes.
Navigate(j) ==
    /\ j # indices
    /\ indices' = j
    /\ IF m.collection \in axes
       THEN \E failKey \in FailKeys : Redrawn(update(m, j, failKey), j)
       ELSE /\ out' = Outcome("navigate", "ok", FALSE, << >>, << >>)
            /\ UNCHANGED <<m, run>>
    /\ UNCHANGED <<copy, marker_dict, axes, next_id, closed_count, drawn_closes>>

Queried(r, arg) ==
    /\ m' = r.m
    /\ run' = Requested(m, indices, r.invoked)
    /\ out' = Outcome("get", r.st, TRUE, r.out, arg)

\* m.get_data_position(get_static_kwargs, get_modified)
Query(get_static_kwargs, get_modified) ==
    /\ \E failKey \in FailKeys :
          Queried(get_data_position(m, indices, get_static_kwargs, get_modified, failKey),
                  [get_static_kwargs |-> get_static_kwargs, get_modified |-> get_modified])
    /\ UNCHANGED <<copy, marker_dict, indices, axes, next_id, closed_count, drawn_closes>>

AppendValues == {Arr(1, <<<<7>>>>), Arr(2, <<Row2(2, 1)>>), Arr(2, << >>)}
ModKeys == {<<"offsets">>, <<"segments">>, <<"offsets", "sizes">>}

Fits(c) ==
    \A k \in DOMAIN c.kwargs :
        /\ c.kwargs[k].t = "arr" => Len(c.kwargs[k].rows) <= MaxLen
        /\ c.kwargs[k].t = "obj" =>
              \A i \in 1 .. Len(c.kwargs[k].cells) :
                  c.kwargs[k].cells[i].t = "arr" =>
                      Len(c.kwargs[k].cells[i].rows) <= MaxLen

\* The arguments of the collection that shares the arrays named in shared
\* with a collection whose arguments have become new_kwargs by a modification
\* of keys: an object array is assigned position by position, in place, and
\* so for both.
Propagated(kwargs, shared, new_kwargs, keys) ==
    [k \in DOMAIN kwargs |->
        IF /\ k \in shared /\ kwargs[k].t = "obj"
           /\ \E i \in 1 .. Len(keys) : keys[i] = k
        THEN new_kwargs[k] ELSE kwargs[k]]

\* self.kwargs[key] = np.delete(...) / np.append(...) binds a new array: the
\* argument is no longer shared.
StillShared(shared, old_kwargs, new_kwargs) ==
    {k \in shared : old_kwargs[k].t = "obj" \/ new_kwargs[k] = old_kwargs[k]}

CopyAfter(r, keys) ==
    IF copy = NoneV THEN copy
    ELSE [m |-> [copy.m EXCEPT !.kwargs = Propagated(copy.m.kwargs, copy.shared,
                                                      r.m.kwargs, keys)],
          shared |-> StillShared(copy.shared, m.kwargs, r.m.kwargs)]

Modified_store(r, op, arg) ==
    /\ Fits(r.m)
    /\ m' = r.m
    /\ copy' = CopyAfter(r, arg.keys)
    /\ out' = Outcome(op, IF r.ok THEN "ok" ELSE "err", FALSE, << >>, arg)

\* m.append_kwarg(keys, value)
AppendKwarg(keys, value) ==
    /\ \A i \in 1 .. Len(keys) : keys[i] \in DOMAIN m.kwargs
    /\ Modified_store(append_kwarg(m, keys, value), "append",
                      [keys |-> keys, mod |-> [op |-> "append", value |-> value]])
    /\ UNCHANGED <<marker_dict, indices, axes, next_id, closed_count, drawn_closes, run>>

\* m.delete_index(keys, index)
DeleteIndex(keys, index) ==
    /\ \A i \in 1 .. Len(keys) : keys[i] \in DOMAIN m.kwargs
    /\ Modified_store(delete_index(m, keys, index), "delete",
                      [keys |-> keys, mod |-> [op |-> "delete", index |-> index]])
    /\ UNCHANGED <<marker_dict, indices, axes, next_id, closed_count, drawn_closes, run>>

Copied(r) ==
    out' = Outcome("deepcopy", r.st, FALSE, IF r.st = "ok" THEN r.m ELSE << >>, << >>)

\* deepcopy(m)
DeepCopy ==
    /\ Copied(deepcopy(m))
    /\ UNCHANGED <<copy, marker_dict, m, indices, axes, next_id, closed_count, drawn_closes, run>>

\* The copy markers2collection makes is constructed from the values of
\* self.kwargs themselves: it shares every array with m.
Kept(r) ==
    /\ copy' = IF r.st = "ok" THEN [m |-> r.m, shared |-> DOMAIN m.kwargs] ELSE copy
    /\ out' = Outcome("deepcopy", r.st, FALSE, << >>, << >>)

\* copy = deepcopy(m)
KeepDeepCopy ==
    /\ copy = NoneV
    /\ Kept(deepcopy(m))
    /\ UNCHANGED <<m, marker_dict, indices, axes, next_id, closed_count, drawn_closes, run>>

CopyModified(r, op, arg) ==
    /\ Fits(r.m)
    /\ copy' = [m |-> r.m, shared |-> StillShared(copy.shared, copy.m.kwargs, r.m.kwargs)]
    /\ m' = [m EXCEPT !.kwargs = Propagated(m.kwargs, copy.shared, r.m.kwargs, arg.keys)]
    /\ out' = Outcome(op, IF r.ok THEN "ok" ELSE "err", FALSE, << >>, arg)

\* copy.append_kwarg(keys, value)
CopyAppendKwarg(keys, value) ==
    /\ copy # NoneV
    /\ \A i \in 1 .. Len(keys) : keys[i] \in DOMAIN copy.m.kwargs
    /\ CopyModified(append_kwarg(copy.m, keys, value), "copy_append",
                    [keys |-> keys, mod |-> [op |-> "append", value |-> value]])
    /\ UNCHANGED <<marker_dict, indices, axes, next_id, closed_count, drawn_closes, run>>

\* copy.delete_index(keys, index)
CopyDeleteIndex(keys, index) ==
    /\ copy # NoneV
    /\ \A i \in 1 .. Len(keys) : keys[i] \in DOMAIN copy.m.kwargs
    /\ CopyModified(delete_index(copy.m, keys, index), "copy_delete",
                    [keys |-> keys, mod |-> [op |-> "delete", index |-> index]])
    /\ UNCHANGED <<marker_dict, indices, axes, next_id, closed_count, drawn_closes, run>>

\* The keyword arguments a constructor call of each kind is given.
KindKwargs(kind) ==
    CASE kind \in EqualKinds -> Kw2("offsets", OffsetsStatic, "sizes", Scalar(1))
      [] kind \in {"Ellipses", "Rectangles"} ->
            Put(Kw2("offsets", OffsetsStatic, "widths", WidthsStatic), "heights", WidthsStatic)
      [] kind \in {"HorizontalLines", "VerticalLines"} -> Kw1("offsets", LineOffsetsStatic)
      [] kind = "Texts" -> Kw2("offsets", OffsetsStatic, "texts", TextsStatic)
      [] OTHER -> Kw1("segments", SegmentsStatic)

\* The tags given to the constructors and to the setters: the recognized
\* ones and one that is not.
GivenTags == TransformTags \cup {"test"}

Created(c, arg) ==
    /\ m' = IF c.ok THEN c.m ELSE m
    /\ out' = Outcome("new", IF c.ok THEN "ok" ELSE "err", FALSE, << >>, arg)

\* A constructor call kind(transform=tr, offsets_transform=otr, ...); the
\* collection made takes the place of the detached collection m.
New(kind, tr, otr, same) ==
    /\ m.signal = 0
    /\ out.op = "init"
    /\ Created(Construct(kind, [Args(tr, otr, KindKwargs(kind))
                                   EXCEPT !.same_object = same, !.same_transform = same]),
               [kind |-> kind, transform |-> tr, offsets_transform |-> otr, same |-> same])
    /\ UNCHANGED <<copy, marker_dict, indices, axes, next_id, closed_count, drawn_closes, run>>

SetDone(r, op, value) ==
    /\ m' = r.m
    /\ out' = Outcome(op, IF r.ok THEN "ok" ELSE "err", FALSE, << >>, [value |-> value])

\* m.offsets_transform = value
SetOffsetsTransform(value) ==
    /\ \E failKey \in FailKeys :
          SetDone(set_offsets_transform(m, value, indices, failKey), "set_offsets_transform",
                  value)
    /\ UNCHANGED <<copy, marker_dict, indices, axes, next_id, closed_count, drawn_closes, run>>

\* m.transform = value
SetTransform(value) ==
    /\ \E failKey \in FailKeys :
          SetDone(set_transform(m, value, indices, failKey), "set_transform", value)
    /\ UNCHANGED <<copy, marker_dict, indices, axes, next_id, closed_count, drawn_closes, run>>

\* The data of the legacy records: every field a number, every field an
\* array over the navigation positions, and some of each.
StaticData ==
    [k \in {"x1", "y1", "x2", "y2", "size"} |->
        Scalar(CASE k = "x1" -> 1 [] k = "y1" -> 2 [] k = "x2" -> 3 [] k = "y2" -> 4
                 [] OTHER -> 5)]
IterData ==
    [k \in {"x1", "y1", "x2", "y2", "size"} |->
        Nav([i \in 1 .. NavSize |->
                i + (CASE k = "x1" -> 10 [] k = "y1" -> 20 [] k = "x2" -> 30 [] k = "y2" -> 40
                       [] OTHER -> 50)])]
StaticAndIterData ==
    [k \in {"x1", "y1", "x2", "y2", "size"} |->
        IF k \in {"x1", "y2"} THEN StaticData[k] ELSE IterData[k]]

LegacyRecord(marker_type, data) ==
    [k \in {"marker_type", "plot_on_signal", "data", "marker_properties"} |->
        CASE k = "marker_type" -> marker_type
          [] k = "plot_on_signal" -> TRUE
          [] k = "data" -> data
          [] OTHER -> << >>]

\* The records given to markers2collection: legacy records, records of an
\* unknown marker type, and the empty record.
Records ==
    {LegacyRecord(t, d) : t \in {"Point", "Rectangle", "HorizontalLine", "VerticalLine", "T"},
                          d \in {StaticData, IterData, StaticAndIterData}}
    \cup {<< >>}

Converted(r, record) ==
    /\ marker_dict' = r.marker_dict
    /\ out' = Outcome("from_record", r.st, FALSE,
                      IF r.st = "ok" THEN r.m ELSE IF r.st = "err" THEN r.named ELSE << >>,
                      [record |-> record])

\* markers2collection(marker_dict)
FromRecord ==
    /\ Converted(markers2collection(marker_dict), marker_dict)
    /\ UNCHANGED <<m, copy, indices, axes, next_id, closed_count, drawn_closes, run>>

\* marker_dict = m._to_dictionary()
ToRecord ==
    /\ marker_dict' = to_dictionary(m)
    /\ out' = Outcome("to_record", "ok", FALSE, << >>, << >>)
    /\ UNCHANGED <<m, copy, indices, axes, next_id, closed_count, drawn_closes, run>>

InitOf(collections, records) ==
    /\ m \in collections
    /\ marker_dict \in records
    /\ indices = 0
    /\ out = NoOut
    /\ axes = {}
    /\ next_id = 1
    /\ closed_count = 0
    /\ drawn_closes = 0
    /\ run = << >>
    /\ copy = NoneV

InitWith(collections) == InitOf(collections, {<< >>})

\* The argument store and the draw-time queries
Init == InitWith(StoreCollections)
Next ==
    \/ \E on_signal \in BOOLEAN : AddMarker(1, on_signal)
    \/ \E j \in 0 .. NavSize - 1 : Navigate(j)
    \/ \E g \in BOOLEAN, gm \in BOOLEAN : Query(g, gm)
    \/ \E keys \in ModKeys, value \in AppendValues : AppendKwarg(keys, value)
    \/ \E keys \in ModKeys, index \in 0 .. MaxLen - 1 : DeleteIndex(keys, index)
    \/ DeepCopy
Spec == Init /\ [][Next]_vars

\* The lazy chunk cache
InitCache == InitWith(CacheCollections)
NextCache ==
    \/ AddMarker(1, TRUE)
    \/ \E j \in 0 .. NavSize - 1 : Navigate(j)
    \/ \E g \in BOOLEAN, gm \in BOOLEAN : Query(g, gm)
SpecCache == InitCache /\ [][NextCache]_vars

\* The life cycle
InitLife == InitWith(LifeCollections)
NextLife ==
    \/ \E host \in {1, 2}, on_signal \in BOOLEAN : AddMarker(host, on_signal)
    \/ Plot
    \/ Close
    \/ \E j \in 0 .. NavSize - 1 : Navigate(j)
SpecLife == InitLife /\ [][NextLife]_vars

\* The transforms
TransformCollections ==
    Constructed({Construct(k, Args("absent", "absent", KindKwargs(k))) :
                    k \in {"Markers", "Points"}})
InitTransform == InitWith(TransformCollections)
NextTransform ==
    \/ \E kind \in AdapterKinds \cup {"Markers"}, tr \in GivenTags \cup {"absent"},
          otr \in GivenTags \cup {"absent"}, same \in BOOLEAN : New(kind, tr, otr, same)
    \/ \E value \in GivenTags : SetOffsetsTransform(value)
    \/ \E value \in GivenTags : SetTransform(value)
    \/ AddMarker(1, TRUE)
SpecTransform == InitTransform /\ [][NextTransform]_vars

\* The relative markers
RelativeCollections ==
    Constructed(
        {Construct("Markers", [Args("relative", "display", Kw1("segments", RelSegments))
                                  EXCEPT !.shift = s]) : s \in Shifts}
        \cup {Construct("Texts", [Args("absent", "relative",
                                       Kw2("offsets", RelOffsets, "texts", TextsStatic))
                                     EXCEPT !.shift = s]) : s \in Shifts}
        \cup {Construct("Points", Args("absent", "relative",
                                       Kw2("offsets", RelOffsets, "sizes", Scalar(1))))})
InitRelative == InitWith(RelativeCollections)
NextRelative ==
    \/ \E host \in Hosts : AddMarker(host, TRUE)
    \/ \E j \in 0 .. NavSize - 1 : Navigate(j)
    \/ \E g \in BOOLEAN, gm \in BOOLEAN : Query(g, gm)
    \/ DeepCopy
SpecRelative == InitRelative /\ [][NextRelative]_vars

\* A collection and its deep copy
CopyCollections ==
    Constructed(
        {Construct("Points", Args("absent", "absent", Kw2("offsets", o, "sizes", Scalar(1)))) :
            o \in {OffsetsStatic, OffsetsPair}}
        \cup {Construct("Markers", Args("display", "display", Kw1("segments", g))) :
            g \in {SegmentsStatic, SegmentsIter}})
InitCopy == InitWith(CopyCollections)
NextCopy ==
    \/ KeepDeepCopy
    \/ \E keys \in ModKeys, value \in AppendValues : AppendKwarg(keys, value)
    \/ \E keys \in ModKeys, index \in 0 .. MaxLen - 1 : DeleteIndex(keys, index)
    \/ \E keys \in ModKeys, value \in AppendValues : CopyAppendKwarg(keys, value)
    \/ \E keys \in ModKeys, index \in 0 .. MaxLen - 1 : CopyDeleteIndex(keys, index)
SpecCopy == InitCopy /\ [][NextCopy]_vars

\* The records
RecordCollections ==
    Constructed(
        {Construct("Points", Args("absent", "absent",
                                  Kw2("offsets", OffsetsStatic, "sizes", Scalar(1)))),
         Construct("HorizontalLines", Args("absent", "absent",
                                           Kw1("offsets", LineOffsetsStatic))),
         Construct("Markers", Args("display", "display", Kw1("segments", SegmentsIter)))})
InitRecord == InitOf(RecordCollections, Records)
NextRecord ==
    \/ FromRecord
    \/ ToRecord
SpecRecord == InitRecord /\ [][NextRecord]_vars

(***************************************************************************)
(* Claims                                                                  *)
(***************************************************************************)
\* The last call asked the collection for its current values and got them.
Answered == out.queried /\ out.st = "ok"

\* C1: after every request on an iterating collection, the value returned for
\* each lazily-backed argument is the element of the fully materialized
\* argument at the navigation index of the request; values of an earlier chunk
\* are never returned for an index outside that chunk.
C1_LazyValueAtIndex ==
    Answered /\ IsIteratingProp(m) =>
        \A k \in m.dask_kwargs :
            /\ k \in DOMAIN out.val
            /\ out.val[k] = m.kwargs[k].cells[indices + 1]

\* C2: when a request is answered, each lazily-backed argument has been
\* materialized exactly once in the run of consecutive requests whose indices
\* fall in the chunk of this request, and the single cache entry of the
\* argument is the materialization of that chunk.
C2_OneMaterializationPerRun ==
    Answered =>
        \A k \in DOMAIN run :
            /\ run[k].n = 1
            /\ k \in DOMAIN m.cache
            /\ m.cache[k] = Compute(m.kwargs[k], run[k].slice)

\* C3: a collection that is attached to a host is never attached again: an
\* add_marker on it, by the same host or by another, fails and leaves the
\* collection, its binding included, as it was.
C3_AttachOnce ==
    [][out'.op = "add_marker" /\ m.signal # 0 => out'.st = "err" /\ m' = m]_vars

\* An add_marker by a second host has failed on a collection bound to the first.
C3_Witness ==
    /\ out.op = "add_marker"
    /\ out.arg.bound # 0
    /\ out.arg.host # out.arg.bound
    /\ out.st = "err"
    /\ m.signal = out.arg.bound

\* C5: the first close of a drawn collection takes its drawable off the axes
\* and triggers the closed notification once; every later close triggers no
\* notification and changes nothing.
C5_CloseIdempotent ==
    [][out'.op = "close" /\ m.collection # 0 =>
          IF drawn_closes = 0
          THEN /\ m.collection \notin axes'
               /\ closed_count' = closed_count + 1
          ELSE /\ m' = m
               /\ axes' = axes
               /\ closed_count' = closed_count]_vars

\* The value get_current_values selects for the argument k at the index i.
Selection(c, k, i) ==
    IF is_iterating(c.kwargs[k]) THEN Wrap(k, c.kwargs[k].cells[i + 1]) ELSE c.kwargs[k]

\* C8: get_current_values of a collection of the base class returns, when the
\* collection is iterating, for each iterating argument its element at the
\* navigation index (a scalar sizes or color wrapped into a one-element
\* sequence) and each other argument as stored; when it is static, every
\* stored value as it is.
C8_CurrentValues ==
    /\ out.op = "get" /\ out.st = "ok"
    /\ out.arg.get_static_kwargs /\ out.arg.get_modified
    /\ m.marker_type = "Markers"
    /\ m.transform # "relative" /\ m.offsets_transform # "relative"
    => IF IsIteratingProp(m)
       THEN /\ DOMAIN out.val = DOMAIN m.kwargs
            /\ \A k \in DOMAIN m.kwargs : out.val[k] = Selection(m, k, indices)
       ELSE out.val = m.kwargs

\* C4: the collection made from the record of a collection has the kind, the
\* offsets_transform, the render transform and the argument values of that
\* collection.
C4_RecordRoundTrip ==
    /\ deepcopy(m).st = "ok"
    /\ deepcopy(m).m.marker_type = m.marker_type
    /\ deepcopy(m).m.offsets_transform = m.offsets_transform
    /\ deepcopy(m).m.transform = m.transform
    /\ deepcopy(m).m.kwargs = m.kwargs

\* C6: get_current_values leaves the argument store as it was, for every
\* marker kind and for static and iterating collections.
C6_PureRead ==
    [][out'.op = "get" => m'.kwargs = m.kwargs]_vars

\* Some argument is an object-typed (ragged) array.
HasRagged(c) == \E k \in DOMAIN c.kwargs : c.kwargs[k].t = "obj"
\* Some argument is a ragged array shaped to the navigation shape of the host.
HasRaggedOfNavShape(c) ==
    \E k \in DOMAIN c.kwargs : c.kwargs[k].t = "obj" /\ Len(c.kwargs[k].cells) = NavSize

\* C7 (as amended): a collection is iterating if and only if neither of its
\* transforms is relative, it draws over the signal view, and at least one of
\* its arguments is an object-typed (ragged) array, whatever its shape.
C7_IteratingIff ==
    IsIteratingProp(m) <=>
        /\ m.transform # "relative"
        /\ m.offsets_transform # "relative"
        /\ m.plot_on_signal
        /\ HasRagged(m)

\* A collection attached over the navigator view holds a ragged argument of
\* the navigation shape and is not iterating.
C7_Witness ==
    /\ m.signal # 0
    /\ ~m.plot_on_signal
    /\ HasRaggedOfNavShape(m)
    /\ ~IsIteratingProp(m)

\* C7 (as stated): a collection is iterating if and only if at least one of
\* its arguments is a ragged array shaped to the navigation shape of the host.
C7_AsStated ==
    IsIteratingProp(m) <=> HasRaggedOfNavShape(m)

\* C9: every draw-time query of Points, Circles and Squares (the draw of
\* add_marker and the redraw after a change of the navigation index) succeeds
\* and yields widths and heights both equal to the current sizes.
C9_SizesBroadcast ==
    /\ m.marker_type \in EqualKinds
    /\ out.op \in {"add_marker", "navigate"}
    /\ out.queried
    => /\ out.st = "ok"
       /\ {"widths", "heights"} \subseteq DOMAIN out.val
       /\ out.val["widths"] = out.val["heights"]
       /\ out.val["widths"] =
             (IF IsIteratingProp(m) THEN Selection(m, "sizes", indices)
              ELSE m.kwargs["sizes"])

\* Mutation of DeleteAt: the last entry is the one removed.
\* The last call appended one marker instance to offsets, and this step
\* deletes index 1 of the iterating offsets.
AppendThenDelete ==
    /\ out.op = "append" /\ out.st = "ok"
    /\ out.arg.keys = <<"offsets">>
    /\ Len(out.arg.mod.value.rows) = 1
    /\ out'.op = "delete" /\ out'.st = "ok"
    /\ out'.arg.keys = <<"offsets">>
    /\ out'.arg.mod.index = 1
    /\ m.kwargs["offsets"].t = "obj"

\* C11 (as amended): appending one marker instance to an iterating collection
\* and then deleting index 1 restores the original instance count at every
\* navigation position; the instances left are the original instance 0, the
\* original instances after instance 1, and the appended instance.
C11_AppendDeleteCount ==
    [][AppendThenDelete =>
          \A i \in 1 .. Len(m.kwargs["offsets"].cells) :
              /\ Len(m'.kwargs["offsets"].cells[i].rows) =
                    Len(m.kwargs["offsets"].cells[i].rows) - 1
              /\ m'.kwargs["offsets"].cells[i].rows[1] = m.kwargs["offsets"].cells[i].rows[1]
              /\ \A j \in 2 .. Len(m'.kwargs["offsets"].cells[i].rows) :
                    m'.kwargs["offsets"].cells[i].rows[j] =
                        m.kwargs["offsets"].cells[i].rows[j + 1]]_vars

\* Index 1 has been deleted from the 2-instance collection after an append:
\* every position holds its original instance 0 and the appended instance.
C11_Witness ==
    /\ out.op = "delete" /\ out.st = "ok" /\ out.arg.mod.index = 1
    /\ "offsets" \in DOMAIN m.kwargs
    /\ m.kwargs["offsets"] =
          Obj([i \in 1 .. NavSize |-> Arr(2, <<PairCells[i].rows[1], Row2(2, 1)>>)])

\* C11 (as stated): appending one marker instance and then deleting index 1
\* restores, at every navigation position, the original count and values.
C11_AsStated ==
    [][AppendThenDelete =>
          \A i \in 1 .. Len(m.kwargs["offsets"].cells) :
              m'.kwargs["offsets"].cells[i].rows =
                  SubSeq(m.kwargs["offsets"].cells[i].rows, 1,
                         Len(m.kwargs["offsets"].cells[i].rows) - 1)]_vars

\* The argument k after the modification mod has been applied to all of it.
Applied(value, mod) == ModifyKey(value, mod)

\* C10: after an append or a delete that failed, every named argument is
\* either as it was before the call or modified at every navigation position.
C10_FailedModificationAtomic ==
    [][out'.op \in {"append", "delete"} /\ out'.st = "err" =>
          \A i \in 1 .. Len(out'.arg.keys) :
              \/ m'.kwargs[out'.arg.keys[i]] = m.kwargs[out'.arg.keys[i]]
              \/ /\ Applied(m.kwargs[out'.arg.keys[i]], out'.arg.mod).ok
                 /\ m'.kwargs[out'.arg.keys[i]] =
                       Applied(m.kwargs[out'.arg.keys[i]], out'.arg.mod).value]_vars

\* The tag a constructor call works with when the caller gave tag.
Effective(tag, default) == IF tag = "absent" THEN default ELSE tag

\* A call of the base constructor with recognized tags has returned or failed.
BaseConstructed ==
    /\ out'.op = "new" /\ out'.arg.kind = "Markers"
    /\ Effective(out'.arg.offsets_transform, "data") \in TransformTags
    /\ Effective(out'.arg.transform, "display") \in TransformTags

\* C12: the base constructor, given recognized tags, fails exactly when
\* offsets_transform is data and the render transform is data or axes; a
\* failed call creates no collection.
C12_ConflictRejected ==
    [][BaseConstructed =>
          /\ out'.st = "err" <=>
                /\ Effective(out'.arg.offsets_transform, "data") = "data"
                /\ Effective(out'.arg.transform, "display") \in {"data", "axes"}
          /\ out'.st = "err" => m' = m]_vars

\* C13: a tag outside the recognized set fails: a constructor call given one
\* creates no collection, and a setter given one leaves the collection, its
\* stored tags and its drawable's transforms as they were.
C13_UnknownTagRejected ==
    [][/\ out'.op = "new" /\ ~(/\ Effective(out'.arg.offsets_transform, "data") \in TransformTags
                                 /\ Effective(out'.arg.transform, "display") \in TransformTags)
             => out'.st = "err" /\ m' = m
       /\ out'.op \in {"set_offsets_transform", "set_transform"}
             /\ out'.arg.value \notin TransformTags
             => out'.st = "err" /\ m' = m]_vars

\* A setter of a drawn collection has been given the unrecognized tag.
C13_Witness ==
    /\ out.op = "set_transform" /\ out.st = "err"
    /\ out.arg.value = "test"
    /\ m.collection # 0 /\ m.coll_transform = m.transform

\* C14: no collection, whether constructed or changed by the
\* offsets_transform setter, holds a scale-only tag (xaxis_scale,
\* yaxis_scale) as its offsets_transform.
C14_NoScaleOnlyOffsets == m.offsets_transform \notin ScaleOnly

\* The render transform an adapter kind fixes.
FixedTransform(kind) ==
    CASE kind = "HorizontalLines" -> "yaxis"
      [] kind = "VerticalLines" -> "xaxis"
      [] OTHER -> "display"

\* C15: an adapter's constructor given a transform other than the kind's
\* fixed one fails and creates no collection; without a transform, or with the
\* fixed one, it returns a collection that holds the fixed tag.
C15_AdapterTransformFixed ==
    [][out'.op = "new" /\ out'.arg.kind \in AdapterKinds =>
          /\ out'.arg.transform \notin {"absent", FixedTransform(out'.arg.kind)}
                => out'.st = "err" /\ m' = m
          /\ out'.arg.transform \in {"absent", FixedTransform(out'.arg.kind)}
                /\ out'.arg.offsets_transform = "absent"
                => out'.st = "ok" /\ m'.transform = FixedTransform(out'.arg.kind)]_vars

\* The offsets of the line collection c that are current at the index i.
CurrentOffsets(c, i) ==
    IF IsIteratingProp(c) THEN c.kwargs["offsets"].cells[i + 1] ELSE c.kwargs["offsets"]

\* The segment a line adapter is to draw for the offset v.
LineSegment(kind, v) == IF kind = "HorizontalLines" THEN <<0, v, 1, v>> ELSE <<v, 0, v, 1>>

\* get_data_position of the line collection m has returned modified values.
LinesExpanded ==
    /\ out'.op = "get" /\ out'.st = "ok" /\ out'.arg.get_modified
    /\ m.marker_type \in {"HorizontalLines", "VerticalLines"}

\* C16: the values a HorizontalLines collection returns hold, under the key
\* segments, the segment [[0, y], [1, y]] for each current offset y, and those
\* of a VerticalLines collection the segment [[x, 0], [x, 1]] for each current
\* offset x: one segment per offset, in the order of the offsets, and no
\* offsets key.
C16_LineSegments ==
    [][LinesExpanded =>
          /\ "offsets" \notin DOMAIN out'.val
          /\ "segments" \in DOMAIN out'.val
          /\ Len(out'.val["segments"].rows) = Len(CurrentOffsets(m, indices).rows)
          /\ \A j \in 1 .. Len(CurrentOffsets(m, indices).rows) :
                out'.val["segments"].rows[j] =
                    LineSegment(m.marker_type, CurrentOffsets(m, indices).rows[j][1])]_vars

\* An iterating HorizontalLines collection has returned its segments at a
\* navigation index other than the first.
C16_Witness ==
    /\ out.op = "get" /\ out.st = "ok" /\ out.arg.get_modified
    /\ m.marker_type = "HorizontalLines"
    /\ IsIteratingProp(m) /\ indices = 1
    /\ out.val["segments"] = Arr(4, <<<<0, 3, 1, 3>>, <<0, 4, 1, 4>>>>)

\* A collection with a relative transform has been drawn or queried for its
\* modified values.
RelativeDrawn ==
    /\ out'.queried /\ out'.st = "ok"
    /\ out'.op = "get" => out'.arg.get_modified
    /\ m.transform = "relative" \/ m.offsets_transform = "relative"

\* The y at which the point (x, f) is to be drawn over the trace data of a
\* host with the signal axis ax, for a collection with the given shift.
RelativeY(x, f, data, ax, shift) ==
    data[Round(x - ax.offset, ax.scale)] * f
    + (IF shift = NoneV THEN 0
       ELSE (shift.num * (data[SigLen - 1] - data[0])) \div shift.den)

\* C17: under a relative transform every point (x, f) of the offsets and of
\* the segments is drawn at the same x and at
\* y = trace[round((x - axis_offset) / axis_scale)] * f, plus
\* shift * (max(trace) - min(trace)) when the collection has a shift, where
\* trace is the trace displayed at the current navigation index.
C17_RelativeScaling ==
    [][RelativeDrawn =>
          \A k \in {"offsets", "segments"} \cap DOMAIN m.kwargs :
              /\ Len(out'.val[k].rows) = Len(m.kwargs[k].rows)
              /\ \A r \in 1 .. Len(m.kwargs[k].rows) :
                    \A p \in 1 .. (m.kwargs[k].w \div 2) :
                        /\ out'.val[k].rows[r][2 * p - 1] = m.kwargs[k].rows[r][2 * p - 1]
                        /\ out'.val[k].rows[r][2 * p] =
                              RelativeY(m.kwargs[k].rows[r][2 * p - 1],
                                        m.kwargs[k].rows[r][2 * p],
                                        Trace(indices'), HostAxis(m'.signal),
                                        m.shift)]_vars

\* The host with the default axis has moved to index 1, where the trace is
\* SigLen + 1 .. 2 * SigLen: with the shift 1 / (SigLen - 1) the segment end
\* (0, 1) is drawn at y = SigLen + 2, and the segment end (2, 2) at
\* y = 2 * (SigLen + 3) + 1.
C17_Witness ==
    /\ out.op = "navigate" /\ out.st = "ok" /\ out.queried
    /\ indices = 1 /\ m.signal = 1
    /\ m.transform = "relative"
    /\ m.shift = [num |-> 1, den |-> SigLen - 1]
    /\ out.val["segments"] =
          Arr(4, <<<<0, 1, 0, SigLen + 2>>, <<1, 1, 2, 2 * (SigLen + 3) + 1>>>>)

\* The collection c has no 1-D trace to scale by: it is bound to no host, or
\* to one that displays no 1-D trace.
NoTrace(c) == ~c.temp_signal \/ ~Host1D(c.signal)

\* The modified values of a collection with a relative transform have been
\* requested, by a draw or by a query.
RelativeRequested ==
    /\ out'.queried
    /\ out'.op = "get" => out'.arg.get_modified
    /\ m.transform = "relative" \/ m.offsets_transform = "relative"

Mismatched(c) ==
    \E k \in DOMAIN c.kwargs :
        is_iterating(c.kwargs[k]) /\ Len(c.kwargs[k].cells) # NavSize

\* C19: add_marker of a collection in which some iterating argument has a
\* shape other than the host's navigation shape fails and leaves the
\* collection detached, so that no attached collection has an iterating
\* argument the host's navigation index cannot index.
C19_ShapeCheckedAtAttach ==
    [][out'.op = "add_marker" /\ m.signal = 0 /\ Mismatched(m) =>
          out'.st = "err" /\ m'.signal = 0]_vars

\* C20: the collection made from the record of a collection with a relative
\* transform and a shift has the shift of that collection.
C20_ShiftRoundTrip ==
    /\ m.transform = "relative" \/ m.offsets_transform = "relative"
    /\ m.shift # NoneV
    => /\ deepcopy(m).st = "ok"
       /\ deepcopy(m).m.shift = m.shift

\* C24: for every lazy argument with a recorded chunk slice the cached values
\* are the materialization of that slice, also after a materialization that
\* raised.
C24_CacheCoherent ==
    \A k \in DOMAIN m.cache_slice :
        /\ k \in DOMAIN m.cache
        /\ m.cache[k] = Compute(m.kwargs[k], m.cache_slice[k])

\* C28: after a close that returns on an attached collection no drawable the
\* collection created is on the axes, however many plot calls and close
\* calls preceded it.
C28_CloseRemovesAll ==
    [][out'.op = "close" /\ out'.st = "ok" /\ m.signal # 0 => axes' = {}]_vars

\* C29: a collection is marked as closing only when its closed notification
\* has been triggered, so that a close which raised leaves no collection on
\* which close is a silent no-op.
C29_NoSilentClose == m.closing => closed_count >= 1

\* C27: no collection, however its tags were set, holds offsets_transform
\* data together with the render transform data or axes.
C27_NoConflictHeld ==
    ~(m.offsets_transform = "data" /\ m.transform \in {"data", "axes"})

\* C26: the collection made from the record of a collection that draws over
\* the navigator view draws over the navigator view, and its record states
\* plot_on_signal false again.
C26_VisibilityRoundTrip ==
    ~m.plot_on_signal =>
        /\ deepcopy(m).st = "ok"
        /\ ~deepcopy(m).m.plot_on_signal
        /\ ~to_dictionary(deepcopy(m).m).plot_on_signal

\* C25: a collection and its deep copy are independent: an append_kwarg or a
\* delete_index on the copy leaves every argument value of the original as it
\* was, and one on the original leaves those of the copy as they were.
C25_CopyIndependent ==
    [][/\ out'.op \in {"copy_append", "copy_delete"} => m'.kwargs = m.kwargs
       /\ out'.op \in {"append", "delete"} /\ copy # NoneV
             => copy'.m.kwargs = copy.m.kwargs]_vars

\* markers2collection has been given a record of the marker type t.
ConvertedType(t) ==
    /\ out.op = "from_record"
    /\ "marker_type" \in DOMAIN out.arg.record
    /\ out.arg.record["marker_type"] = t

\* The value of a field of the data of a legacy record at the position i.
FieldAt(data, k, i) == IF data[k].t = "nav" THEN data[k].vals[i] ELSE data[k].x

\* The rows an argument of a collection holds at the position i.
RowsAt(value, i) == IF value.t = "obj" THEN value.cells[i].rows ELSE value.rows

\* The number an argument sizes holds at the position i.
SizeAt(value, i) == IF value.t = "obj" THEN value.cells[i].x ELSE value.x

\* C21: the Points collection made from a legacy Point record has, at every
\* navigation position, the one offset (x1, y1) and the size of the record.
C21_PointUpgrade ==
    ConvertedType("Point") =>
        /\ out.st = "ok"
        /\ out.val.marker_type = "Points"
        /\ \A i \in 1 .. NavSize :
              /\ RowsAt(out.val.kwargs["offsets"], i) =
                    <<<<FieldAt(out.arg.record["data"], "x1", i),
                        FieldAt(out.arg.record["data"], "y1", i)>>>>
              /\ SizeAt(out.val.kwargs["sizes"], i) =
                    FieldAt(out.arg.record["data"], "size", i)

\* The polygon [[x1, y1], [x2, y1], [x2, y2], [x1, y2]] of the data of a legacy
\* record at the position i, as the one row of an array of vertices.
Polygon(data, i) ==
    <<<<FieldAt(data, "x1", i), FieldAt(data, "y1", i), FieldAt(data, "x2", i),
        FieldAt(data, "y1", i), FieldAt(data, "x2", i), FieldAt(data, "y2", i),
        FieldAt(data, "x1", i), FieldAt(data, "y2", i)>>>>

\* C22: a legacy Rectangle record is converted into a collection whose
\* vertices are, at every navigation position, the one polygon
\* [[x1, y1], [x2, y1], [x2, y2], [x1, y2]] in that order, a static field
\* having its value at every position when other fields iterate.
C22_RectanglePolygon ==
    ConvertedType("Rectangle") =>
        /\ out.st = "ok"
        /\ out.val.marker_type = "Markers"
        /\ \A i \in 1 .. NavSize :
              RowsAt(out.val.kwargs["verts"], i) = Polygon(out.arg.record["data"], i)

\* A Rectangle record with static x1 and y2 and iterating y1 and x2 has been
\* converted: the polygon of the second position repeats the static fields.
C22_Witness ==
    /\ ConvertedType("Rectangle")
    /\ out.st = "ok"
    /\ out.arg.record["data"] = StaticAndIterData
    /\ out.val.kwargs["verts"].t = "obj"
    /\ out.val.kwargs["verts"].cells[2].rows = <<<<1, 22, 32, 22, 32, 4, 1, 4>>>>

\* The marker types markers2collection has a branch for.
KnownKinds == LegacyKinds \cup MappedKinds \cup {"Markers"}

\* C23: markers2collection on a record whose marker type is neither a marker
\* class nor a legacy type fails with an error that names the marker type and
\* returns no collection; on an empty record it returns the empty result and
\* does not fail.
C23_UnknownKindNamed ==
    out.op = "from_record" =>
        /\ DOMAIN out.arg.record = {} => out.st = "empty" /\ out.val = << >>
        /\ /\ {"marker_type", "plot_on_signal"} \subseteq DOMAIN out.arg.record
           /\ out.arg.record["marker_type"] \notin KnownKinds
           => out.st = "err" /\ out.val = out.arg.record["marker_type"]

\* A record of the unknown marker type "T" has been refused by name.
C23_Witness ==
    /\ ConvertedType("T")
    /\ "T" \notin KnownKinds
    /\ out.st = "err"
    /\ out.val = "T"

\* C30: markers2collection leaves the record it is given as it was, for the
\* records of the marker classes and of the legacy types, whether it returns
\* a collection or fails.
C30_RecordUnchanged == out.op = "from_record" => marker_dict = out.arg.record

====
